---- MODULE Spec2Model ----
(***************************************************************************)
(* Model of the Twilio Media Streams bridge                                *)
(* (backend/open_webui/utils/twilio_media_streams.py) and of the websocket *)
(* endpoint that drives it (backend/open_webui/routers/orders.py).         *)
(*                                                                         *)
(* Four families of behaviours are described:                              *)
(*   Spec / FairSpec  the life of media-stream connections: the endpoint,  *)
(*                    the bridge's main loop, its upstream receive task,   *)
(*                    the bridge registry, and the two peers;              *)
(*   SpecTwoCalls     two media-stream connections open at once;           *)
(*   SpecCodec        the audio functions applied to bounded inputs;       *)
(*   SpecRegistry     the bridge registry's functions called in any order. *)
(***************************************************************************)
EXTENDS Integers, Sequences, FiniteSets, TLC

VARIABLES
    \* ---- endpoint and bridge, per media-stream connection ----
    live,           \* connections the telephony gateway opens in this run
    pc,             \* where the endpoint / connect_twilio coroutine is suspended
    call_sid,       \* the endpoint's call_sid ("" until read, or when absent)
    ai_provider,    \* bridge.ai_provider
    bridge,         \* TRUE once the TwilioMediaStreamBridge object exists
    is_connected,   \* bridge.is_connected
    ai_ws,          \* bridge.ai_ws: "None" or "conn"
    aiConn,         \* the upstream connection: "none", "open", "dropped", "closed"
    closes,         \* number of ai_ws.close() calls issued
    aiTask,         \* where _handle_ai_messages is suspended
    upFrame,        \* telephony frame awaiting ai_ws.send (0: none)
    upAudio,        \* its payload and the buffer handed to _send_audio_to_ai
    downFrame,      \* upstream audio chunk awaiting twilio_ws.send_text (0: none)
    downParts,      \* audio parts of the same upstream event still to be sent after it
    twConn,         \* the telephony websocket: "open" or "gone"
    twClosedByApp,  \* the endpoint called websocket.close()
    aiWire,         \* upstream wire log: handshake sent, ack received, audio sent
    twSent,         \* audio chunk ids emitted to the telephony websocket
    nTwMedia,       \* media frames with a payload received from telephony
    lastTw,         \* kind of the last message _handle_twilio_message was given
    twInbox,        \* media frames the gateway sent that receive_text has yet to return
    nAiAudio,       \* audio chunks of upstream events the receive task has taken up
    outcome,        \* how the endpoint invocation ended ("" while running)
    _active_bridges,\* the registry: call_sid -> connection whose bridge is registered
    \* ---- registry calls ----
    regOp,          \* the last registry call and the registry before it
    \* ---- audio functions ----
    has_numpy,      \* whether "import numpy" succeeds in this installation
    job             \* the codec call under study and its result

\* what no step of a connection changes
envVars == << regOp, has_numpy, job >>

vars == << live, pc, call_sid, ai_provider, bridge, is_connected, ai_ws, aiConn,
           closes, aiTask, upFrame, upAudio, downFrame, downParts, twConn, twClosedByApp,
           aiWire, twSent, nTwMedia, lastTw, twInbox, nAiAudio, outcome, _active_bridges,
           envVars >>

\* the connections' variables, but for the registry
callVars == << live, pc, call_sid, ai_provider, bridge, is_connected, ai_ws,
               aiConn, closes, aiTask, upFrame, upAudio, downFrame, downParts, twConn,
               twClosedByApp, aiWire, twSent, nTwMedia, lastTw, twInbox, nAiAudio,
               outcome >>

bridgeVars == << callVars, _active_bridges >>

(***************************************************************************)
(* Bounds                                                                  *)
(***************************************************************************)
MaxFrames == 2      \* audio frames per direction and per connection
MaxBytes == 4       \* length of the byte buffers given to the resampler
MaxSamples == 10    \* length, in samples, of the long buffers given to it
FrameBytes == 160   \* payload bytes of a telephony media frame (20 ms at 8 kHz)

(***************************************************************************)
(* Byte and sample arithmetic                                              *)
(***************************************************************************)
Bytes == 0..255

RECURSIVE Pow2(_)
Pow2(n) == IF n = 0 THEN 1 ELSE 2 * Pow2(n - 1)

\* struct.unpack('<h', b): two bytes, little endian, signed
UnpackInt16(lo, hi) ==
    LET u == lo + 256 * hi IN IF u >= 32768 THEN u - 65536 ELSE u

\* int16.tobytes(): the two bytes of a signed 16-bit sample, little endian
PackInt16(s) == << s % 256, (s \div 256) % 256 >>

Abs(n) == IF n < 0 THEN -n ELSE n

(***************************************************************************)
(* Audio Codec: _mulaw_to_pcm16, _pcm16_to_mulaw, _resample_audio          *)
(* Buffers are sequences of bytes; a PCM16 sample is two bytes, low first. *)
(***************************************************************************)

\* One iteration of the loop of _mulaw_to_pcm16, up to "sample = int(sample *
\* 256)": the integer the two output bytes are cut from.  Python's ~byte is
\* -byte-1, and &, >> on a negative int act on its two's complement, which
\* floor division and modulo reproduce.
MulawLinear(byte) ==
    LET inv      == -byte - 1
        sign     == ((inv % 256) \div 128) * 128      \* inv & 0x80
        exponent == (inv \div 16) % 8                 \* (inv >> 4) & 0x07
        mantissa == inv % 16                          \* inv & 0x0F
        mag      == mantissa * Pow2(exponent + 3)     \* mantissa << (exponent + 3)
        signed   == IF sign # 0 THEN -mag ELSE mag
    IN  signed * 256

\* the two appends: sample & 0xFF, (sample >> 8) & 0xFF
MulawSample(byte) ==
    LET sample == MulawLinear(byte)
    IN  << sample % 256, (sample \div 256) % 256 >>

_mulaw_to_pcm16(mulaw_bytes) ==
    [i \in 1..(2 * Len(mulaw_bytes)) |->
        MulawSample(mulaw_bytes[(i + 1) \div 2])[2 - (i % 2)]]

\* The while loop of _pcm16_to_mulaw: the segment of a biased magnitude
RECURSIVE SegmentOf(_, _, _)
SegmentOf(sample, exponent, exp_mask) ==
    IF exponent > 0 /\ (sample \div exp_mask) % 2 = 0
    THEN SegmentOf(sample, exponent - 1, exp_mask \div 2)
    ELSE exponent

\* the mu-law byte of a sample whose magnitude is not clamped
MulawByteNoClamp(lo, hi) ==
    LET s        == UnpackInt16(lo, hi)
        sign     == IF s < 0 THEN 128 ELSE 0
        biased   == Abs(s) + 132
        exponent == SegmentOf(biased, 7, 16384)
        mantissa == (biased \div Pow2(exponent + 3)) % 16
    IN  (-(sign + exponent * 16 + mantissa) - 1) % 256

\* One iteration of the loop of _pcm16_to_mulaw: the mu-law byte of a sample
MulawByte(lo, hi) ==
    LET s        == UnpackInt16(lo, hi)
        sign     == IF s < 0 THEN 128 ELSE 0
        clamped  == IF Abs(s) > 32635 THEN 32635 ELSE Abs(s)
        biased   == clamped + 132                                \* += 0x84
        exponent == SegmentOf(biased, 7, 16384)
        mantissa == (biased \div Pow2(exponent + 3)) % 16
    IN  (-(sign + exponent * 16 + mantissa) - 1) % 256           \* ~(...) & 0xFF

\* range(0, len, 2) with the guard i + 1 < len: a trailing odd byte is skipped
_pcm16_to_mulaw(pcm_bytes) ==
    [i \in 1..(Len(pcm_bytes) \div 2) |->
        MulawByte(pcm_bytes[2 * i - 1], pcm_bytes[2 * i])]

\* The outcome of a call: the bytes returned, or an exception raised
Returned(bs) == [raised |-> FALSE, bytes |-> bs]
Raised == [raised |-> TRUE, bytes |-> << >>]

\* np.frombuffer(audio_bytes, dtype=np.int16), for an even number of bytes
Samples(bs) == [i \in 1..(Len(bs) \div 2) |-> UnpackInt16(bs[2 * i - 1], bs[2 * i])]

(***************************************************************************)
(* Double-precision arithmetic, for the numpy branch of _resample_audio.   *)
(* A natural number of any size is a sequence of limbs in base 2^13, least *)
(* significant first and without leading zero limbs; a double is a pair    *)
(* [m, e] of such a number and an exponent, of value m * 2^e, with a sign  *)
(* kept beside it.                                                         *)
(***************************************************************************)
LimbBits == 13
LimbBase == Pow2(LimbBits)
MantissaBits == 53

RECURSIVE Limbs(_)
Limbs(n) == IF n = 0 THEN << >> ELSE << n % LimbBase >> \o Limbs(n \div LimbBase)

RECURSIVE BigToInt(_)
BigToInt(a) == IF a = << >> THEN 0 ELSE a[1] + LimbBase * BigToInt(Tail(a))

RECURSIVE Trim(_)
Trim(a) ==
    IF a # << >> /\ a[Len(a)] = 0 THEN Trim(SubSeq(a, 1, Len(a) - 1)) ELSE a

RECURSIVE MulFrom(_, _, _, _)
MulFrom(a, k, i, carry) ==
    IF i > Len(a) THEN Limbs(carry)
    ELSE LET t == a[i] * k + carry
         IN  << t % LimbBase >> \o MulFrom(a, k, i + 1, t \div LimbBase)

\* a * k for 0 <= k < 2^17
BigMulSmall(a, k) == Trim(MulFrom(a, k, 1, 0))

DivStep(rest, t, d) == [q |-> Append(rest.q, t \div d), r |-> rest.r]

RECURSIVE DivFrom(_, _, _, _)
DivFrom(a, d, i, r) ==
    IF i = 0 THEN [q |-> << >>, r |-> r]
    ELSE DivStep(DivFrom(a, d, i - 1, (r * LimbBase + a[i]) % d), r * LimbBase + a[i], d)

TrimQuotient(dv) == [q |-> Trim(dv.q), r |-> dv.r]

\* quotient and remainder of a by d, 0 < d < 2^17
BigDivSmall(a, d) == TrimQuotient(DivFrom(a, d, Len(a), 0))

RECURSIVE AddFrom(_, _, _, _)
AddFrom(a, b, i, carry) ==
    IF i > Len(a) /\ i > Len(b) THEN Limbs(carry)
    ELSE LET t == (IF i <= Len(a) THEN a[i] ELSE 0)
                  + (IF i <= Len(b) THEN b[i] ELSE 0) + carry
         IN  << t % LimbBase >> \o AddFrom(a, b, i + 1, t \div LimbBase)

BigAdd(a, b) == AddFrom(a, b, 1, 0)

RECURSIVE SubFrom(_, _, _, _)
SubFrom(a, b, i, borrow) ==
    IF i > Len(a) THEN << >>
    ELSE LET t == a[i] - (IF i <= Len(b) THEN b[i] ELSE 0) - borrow
         IN  << t % LimbBase >> \o SubFrom(a, b, i + 1, IF t < 0 THEN 1 ELSE 0)

\* a - b for a >= b
BigSub(a, b) == Trim(SubFrom(a, b, 1, 0))

RECURSIVE LessFrom(_, _, _)
LessFrom(a, b, i) ==
    IF i = 0 THEN FALSE
    ELSE IF a[i] # b[i] THEN a[i] < b[i] ELSE LessFrom(a, b, i - 1)

BigLess(a, b) ==
    IF Len(a) # Len(b) THEN Len(a) < Len(b) ELSE LessFrom(a, b, Len(a))

RECURSIVE BitLenSmall(_)
BitLenSmall(n) == IF n = 0 THEN 0 ELSE 1 + BitLenSmall(n \div 2)

BitLen(a) ==
    IF a = << >> THEN 0 ELSE LimbBits * (Len(a) - 1) + BitLenSmall(a[Len(a)])

\* a * 2^t
ShiftLeft(a, t) ==
    IF a = << >> THEN << >>
    ELSE [i \in 1..(t \div LimbBits) |-> 0] \o BigMulSmall(a, Pow2(t % LimbBits))

\* dv is the upper limbs of a, those above the w lowest, divided by a power
\* of two
ShiftedOut(dv, a, w) ==
    [q |-> dv.q, sticky |-> dv.r # 0 \/ \E i \in 1..w : a[i] # 0]

\* a \div 2^t, and whether a bit that is set was shifted out
ShiftRight(a, t) ==
    IF t \div LimbBits >= Len(a) THEN [q |-> << >>, sticky |-> a # << >>]
    ELSE ShiftedOut(BigDivSmall(SubSeq(a, t \div LimbBits + 1, Len(a)),
                                Pow2(t % LimbBits)),
                    a, t \div LimbBits)

IsOdd(a) == a # << >> /\ a[1] % 2 = 1

\* ties to even: q is the mantissa cut to 53 bits, guard the first bit cut
\* off and sticky whether anything is set below it
RoundTo(q, guard, sticky, e) ==
    [m |-> IF guard /\ (sticky \/ IsOdd(q)) THEN BigAdd(q, << 1 >>) ELSE q, e |-> e]

\* sh is the mantissa shifted right so that 54 bits are left
RoundCut(sh, e, sticky) ==
    RoundTo(BigDivSmall(sh.q, 2).q, IsOdd(sh.q), sh.sticky \/ sticky, e)

\* The double nearest to m * 2^e (plus a positive amount below one unit of m
\* when sticky holds): 53 significant bits, ties to even
RoundDouble(m, e, sticky) ==
    IF BitLen(m) <= MantissaBits THEN [m |-> m, e |-> e]
    ELSE RoundCut(ShiftRight(m, BitLen(m) - MantissaBits - 1),
                  e + BitLen(m) - MantissaBits, sticky)

\* the integer part of the double d (of negative exponent)
DoubleFloor(d) == BigToInt(ShiftRight(d.m, -d.e).q)

\* the double nearest to the quotient dv, taken to 78 binary places
QuotientDouble(dv) == RoundDouble(dv.q, -(6 * LimbBits), dv.r # 0)

\* step of np.linspace(0, n, m) for m > 1: the double n / (m - 1)
LinspaceStep(n, m) ==
    QuotientDouble(BigDivSmall(ShiftLeft(Limbs(n), 6 * LimbBits), m - 1))

\* the double i * step
TimesStep(step, i) == RoundDouble(BigMulSmall(step.m, i), step.e, FALSE)

\* element i (0-based) of np.linspace(0, n, m), m > 1: arange(m) * step, and
\* the last element set to n
LinspaceAt(n, m, i) ==
    IF i = m - 1 THEN [m |-> Limbs(n * LimbBase), e |-> -LimbBits]
    ELSE TimesStep(LinspaceStep(n, m), i)

\* astype(np.int16) of the double nearest to mag * 2^e, negated if neg:
\* truncation toward zero
TruncatedSum(mag, e, neg) ==
    (IF neg THEN -1 ELSE 1) * DoubleFloor(RoundDouble(mag, e, FALSE))

\* base + slope * frac for the rounded product p of |slope| and frac, and b
\* the magnitude of base in units of 2^p.e
SignedSum(base, slope, b, p) ==
    IF base = 0 \/ (base > 0) = (slope > 0)
    THEN TruncatedSum(BigAdd(b, p.m), p.e, slope < 0)
    ELSE IF BigLess(b, p.m)
         THEN TruncatedSum(BigSub(p.m, b), p.e, slope < 0)
         ELSE TruncatedSum(BigSub(b, p.m), p.e, base < 0)

ProductPlusBase(base, slope, p) ==
    SignedSum(base, slope, ShiftLeft(Limbs(Abs(base)), -p.e), p)

\* slope * frac + base in doubles, then astype(np.int16): base and slope are
\* integers, frac is a double in (0, 1); the product is rounded, the sum is
\* rounded, and the conversion truncates toward zero
InterpValue(base, slope, frac) ==
    IF slope = 0 THEN base
    ELSE ProductPlusBase(base, slope,
                         RoundDouble(BigMulSmall(frac.m, Abs(slope)), frac.e, FALSE))

\* between samples j and j + 1 (0-based), f * 2^e beyond sample j
InterpBetween(samples, j, f, e) ==
    IF f = << >> THEN samples[j + 1]
    ELSE InterpValue(samples[j + 1], samples[j + 2] - samples[j + 1],
                     [m |-> f, e |-> e])

\* at abscissa x, whose integer part is j
InterpFrom(samples, n, x, j) ==
    IF j >= n - 1 THEN samples[n]
    ELSE InterpBetween(samples, j, BigSub(x.m, ShiftLeft(Limbs(j), -x.e)), x.e)

InterpAtAbscissa(samples, n, x) == InterpFrom(samples, n, x, DoubleFloor(x))

\* np.interp(np.linspace(0, n, m), np.arange(n), samples).astype(np.int16) at
\* index i (0-based) of the m outputs, n >= 1, m >= 1, computed in doubles as
\* numpy computes it: x = i * step; to the right of n - 1 the last sample;
\* else, with j the integer part of x, samples[j] when x = j and otherwise
\* slope * (x - j) + samples[j] for the slope samples[j+1] - samples[j]
InterpAt(samples, n, m, i) ==
    IF m = 1 THEN samples[1]
    ELSE InterpAtAbscissa(samples, n, LinspaceAt(n, m, i))

\* the bytes of a sequence of two-byte samples
Flatten(ss) == [i \in 1..(2 * Len(ss)) |-> ss[(i + 1) \div 2][2 - (i % 2)]]

\* The numpy branch of _resample_audio.  np.frombuffer raises on a buffer that
\* is not a whole number of samples and np.interp on an empty sample array;
\* neither is an ImportError, so both leave _resample_audio as exceptions.
NumpyResample(audio_bytes, from_rate, to_rate) ==
    LET n == Len(audio_bytes) \div 2
        m == (n * to_rate) \div from_rate          \* int(len(samples) * to / from)
        samples == Samples(audio_bytes)
    IN  IF Len(audio_bytes) % 2 # 0 \/ n = 0 THEN Raised
        ELSE Returned(Flatten([i \in 1..m |-> PackInt16(InterpAt(samples, n, m, i - 1))]))

\* Upsampling fallback: every whole sample repeated int(ratio) times
FallbackUp(audio_bytes, k) ==
    [i \in 1..(2 * k * (Len(audio_bytes) \div 2)) |->
        audio_bytes[2 * ((i - 1) \div (2 * k)) + ((i - 1) % 2) + 1]]

\* The slice audio_bytes[::stride]: the bytes at offsets 0, stride, 2*stride, ...
Strided(bs, stride) ==
    [i \in 1..((Len(bs) + stride - 1) \div stride) |-> bs[(i - 1) * stride + 1]]

\* Downsampling fallback: audio_bytes[::step*2][:len(audio_bytes)//step*2]
FallbackDown(audio_bytes, step) ==
    LET picked == Strided(audio_bytes, step * 2)
        cut    == (Len(audio_bytes) \div step) * 2
    IN  SubSeq(picked, 1, IF cut < Len(picked) THEN cut ELSE Len(picked))

\* The except ImportError branch of _resample_audio (from_rate # to_rate)
FallbackResample(audio_bytes, from_rate, to_rate) ==
    IF to_rate > from_rate
    THEN Returned(FallbackUp(audio_bytes, to_rate \div from_rate))
    ELSE Returned(FallbackDown(audio_bytes, from_rate \div to_rate))

\* _resample_audio without its equal-rate shortcut
ResampleAlways(audio_bytes, from_rate, to_rate, numpy) ==
    IF numpy THEN NumpyResample(audio_bytes, from_rate, to_rate)
    ELSE IF to_rate > from_rate
         THEN Returned(FallbackUp(audio_bytes, to_rate \div from_rate))
         ELSE Returned(FallbackDown(audio_bytes, from_rate \div to_rate))

\* _resample_audio; numpy tells whether "import numpy" succeeds
_resample_audio(audio_bytes, from_rate, to_rate, numpy) ==
    IF from_rate = to_rate THEN Returned(audio_bytes)
    ELSE IF numpy THEN NumpyResample(audio_bytes, from_rate, to_rate)
         ELSE FallbackResample(audio_bytes, from_rate, to_rate)

(***************************************************************************)
(* The codec calls under study                                             *)
(***************************************************************************)
Rates == {8000, 16000, 24000}
SampleBytes == {0, 1, 128, 255}

RECURSIVE SeqsUpTo(_, _)
SeqsUpTo(S, n) ==
    IF n = 0 THEN {<< >>}
    ELSE LET shorter == SeqsUpTo(S, n - 1)
         IN  shorter \cup {Append(s, x) : s \in {t \in shorter : Len(t) = n - 1}, x \in S}

NoJob == [op |-> "none", stage |-> "done", inp |-> << >>, from |-> 0, to |-> 0,
          numpy |-> FALSE, pcm |-> << >>, out |-> Returned(<< >>)]

RoundTripJobs ==
    {[NoJob EXCEPT !.op = "roundtrip", !.stage = "input", !.inp = << x >>] : x \in Bytes}

ResampleJobs ==
    {[NoJob EXCEPT !.op = "resample", !.stage = "input", !.inp = b,
                   !.from = f, !.to = t, !.numpy = np] :
        b \in SeqsUpTo(SampleBytes, MaxBytes), f \in Rates, t \in Rates, np \in BOOLEAN}

\* whole-sample buffers of every length up to MaxSamples (their content is a
\* ramp), for what depends on the length of a buffer
Ramp(n) == [i \in 1..(2 * n) |-> (37 * i) % 256]

LongResampleJobs ==
    {[NoJob EXCEPT !.op = "resample", !.stage = "input", !.inp = Ramp(n),
                   !.from = f, !.to = t, !.numpy = np] :
        n \in 0..MaxSamples, f \in Rates, t \in Rates, np \in BOOLEAN}

\* samples at and beyond the clamp of _pcm16_to_mulaw, and a few small ones
EdgeSamples ==
    (-32768..-32600) \cup (32600..32767) \cup {-1000, -1, 0, 1, 1000}

EncodeJobs ==
    {[NoJob EXCEPT !.op = "encode", !.stage = "input", !.inp = b] :
        b \in {PackInt16(s) : s \in EdgeSamples}
               \cup {PackInt16(s) \o PackInt16(-s - 1) \o << x >> :
                        s \in {0, 32635, 32636, 32767}, x \in {0, 128}}}

\* decode one companded byte
Decode ==
    /\ job.op = "roundtrip" /\ job.stage = "input"
    /\ job' = [job EXCEPT !.stage = "decoded", !.pcm = _mulaw_to_pcm16(job.inp)]
    /\ UNCHANGED << bridgeVars, regOp, has_numpy >>

\* encode what was decoded
Encode ==
    /\ job.op = "roundtrip" /\ job.stage = "decoded"
    /\ job' = [job EXCEPT !.stage = "encoded",
                          !.out = Returned(_pcm16_to_mulaw(job.pcm))]
    /\ UNCHANGED << bridgeVars, regOp, has_numpy >>

\* resample a buffer
Resample ==
    /\ job.op = "resample" /\ job.stage = "input"
    /\ job' = [job EXCEPT !.stage = "resampled",
                          !.out = _resample_audio(job.inp, job.from, job.to, job.numpy)]
    /\ UNCHANGED << bridgeVars, regOp, has_numpy >>

\* encode a PCM16 buffer
EncodePcm ==
    /\ job.op = "encode" /\ job.stage = "input"
    /\ job' = [job EXCEPT !.stage = "encoded",
                          !.out = Returned(_pcm16_to_mulaw(job.inp))]
    /\ UNCHANGED << bridgeVars, regOp, has_numpy >>

NextCodec == Decode \/ Encode \/ Resample \/ EncodePcm

(***************************************************************************)
(* The bridge registry: _active_bridges, a dict from call_sid to bridge.   *)
(* A bridge is named by the connection whose endpoint created it.          *)
(***************************************************************************)
Conns == {"k1", "k2"}
Sids == {"c1", "c2"}
None == "None"

\* _active_bridges.get(call_sid)
get_bridge(reg, sid) == IF sid \in DOMAIN reg THEN reg[sid] ELSE None

\* a register_bridge that forgets the other entries
RegisterResets(reg, sid, b) == [s \in {sid} |-> b]

\* a register_bridge that keeps the bridge an id already has
RegisterKeepsFirst(reg, sid, b) ==
    [s \in (DOMAIN reg) \cup {sid} |-> IF s \in DOMAIN reg THEN reg[s] ELSE b]

\* the dict after _active_bridges[call_sid] = bridge
register_bridge(reg, sid, b) ==
    [s \in (DOMAIN reg) \cup {sid} |-> IF s = sid THEN b ELSE reg[s]]

\* an unregister_bridge that deletes nothing
UnregisterNothing(reg, sid) == reg

\* the dict after "if call_sid in _active_bridges: del _active_bridges[call_sid]"
unregister_bridge(reg, sid) ==
    IF sid \in DOMAIN reg THEN [s \in (DOMAIN reg) \ {sid} |-> reg[s]] ELSE reg

\* call ids given to the registry functions when they are called on their own
RegSids == Sids \cup {"c3"}

\* a registry call: its name, its arguments, the registry it found, and for
\* every call id what the last call made for that id stored (None: nothing)
NoOp == [op |-> "none", sid |-> "", b |-> None, before |-> [s \in {} |-> None],
         last |-> [s \in RegSids |-> None]]

\* register_bridge(call_sid, bridge)
RegisterBridge ==
    /\ \E sid \in RegSids, b \in Conns :
        /\ _active_bridges' = register_bridge(_active_bridges, sid, b)
        /\ regOp' = [op |-> "register", sid |-> sid, b |-> b,
                     before |-> _active_bridges,
                     last |-> [regOp.last EXCEPT ![sid] = b]]
    /\ UNCHANGED << callVars, has_numpy, job >>

\* unregister_bridge(call_sid)
UnregisterBridge ==
    /\ \E sid \in RegSids :
        /\ _active_bridges' = unregister_bridge(_active_bridges, sid)
        /\ regOp' = [op |-> "unregister", sid |-> sid, b |-> None,
                     before |-> _active_bridges,
                     last |-> [regOp.last EXCEPT ![sid] = None]]
    /\ UNCHANGED << callVars, has_numpy, job >>

NextRegistry == RegisterBridge \/ UnregisterBridge

(***************************************************************************)
(* The media-stream endpoint and the bridge                                *)
(*                                                                         *)
(* asyncio runs a coroutine without interruption between two awaits, so    *)
(* every action below is the code from one suspension point to the next.   *)
(*   main coroutine (pc):  idle -> accepted -> closing | ai_connect ->     *)
(*       ai_handshake -> tw_recv <-> ai_send, tw_recv -> ai_close -> done  *)
(*   upstream receive task (aiTask): none -> recv <-> tw_send, -> ended    *)
(***************************************************************************)

Supported == {"openai", "gemini"}
Providers == Supported \cup {"other"}

\* a _connect_ai that takes every provider for a supported one
ConnectAiNeverRaises(prov) == FALSE

\* _connect_ai raises ValueError, before it opens any connection, for a
\* provider that is neither 'openai' nor 'gemini'
ConnectAiRaises(prov) == prov \notin Supported
FrameIds == 1..MaxFrames

\* payloads of the media frames the gateway sends (base64-decoded): mu-law
\* silence and a ramp
TwFrames == {[i \in 1..FrameBytes |-> 255], [i \in 1..FrameBytes |-> (3 * i) % 256]}

\* a media payload and the PCM16 buffer made of it for the upstream
NoAudio == [frame |-> << >>, bytes |-> << >>]

\* Entries of the upstream wire log aiWire: the configuration handshake sent
\* (session.update / setup), its acknowledgement received, an audio message
\* sent (input_audio_buffer.append / realtimeInput.mediaChunks) for frame id,
\* with the lengths of the frame's payload and of the buffer the message
\* carries
Handshake == [t |-> "handshake", id |-> 0, frame |-> 0, bytes |-> 0]
Ack == [t |-> "ack", id |-> 0, frame |-> 0, bytes |-> 0]
Audio(id, a) ==
    [t |-> "audio", id |-> id, frame |-> Len(a.frame), bytes |-> Len(a.bytes)]

\* target_rate of _handle_twilio_message
TargetRate(prov) == IF prov = "openai" THEN 16000 ELSE 24000

\* what _handle_twilio_message makes of a media payload: decoded, then
\* resampled from 8000 Hz to the provider's rate
UpstreamAudio(prov, payload, numpy) ==
    _resample_audio(_mulaw_to_pcm16(payload), 8000, TargetRate(prov), numpy)

\* ... tabulated for the payloads of TwFrames
UpstreamAudioOf ==
    [prov \in Providers, payload \in TwFrames, numpy \in BOOLEAN |->
        UpstreamAudio(prov, payload, numpy)]
Entries(log) == {log[i] : i \in DOMAIN log}

InitBridge(L) ==
    /\ live = L
    /\ pc = [k \in Conns |-> "idle"]
    /\ call_sid = [k \in Conns |-> ""]
    /\ ai_provider = [k \in Conns |-> ""]
    /\ bridge = [k \in Conns |-> FALSE]
    /\ is_connected = [k \in Conns |-> FALSE]
    /\ ai_ws = [k \in Conns |-> None]
    /\ aiConn = [k \in Conns |-> "none"]
    /\ closes = [k \in Conns |-> 0]
    /\ aiTask = [k \in Conns |-> "none"]
    /\ upFrame = [k \in Conns |-> 0]
    /\ upAudio = [k \in Conns |-> NoAudio]
    /\ downFrame = [k \in Conns |-> 0]
    /\ downParts = [k \in Conns |-> 0]
    /\ twConn = [k \in Conns |-> "none"]
    /\ twClosedByApp = [k \in Conns |-> FALSE]
    /\ aiWire = [k \in Conns |-> << >>]
    /\ twSent = [k \in Conns |-> << >>]
    /\ nTwMedia = [k \in Conns |-> 0]
    /\ lastTw = [k \in Conns |-> ""]
    /\ twInbox = [k \in Conns |-> 0]
    /\ nAiAudio = [k \in Conns |-> 0]
    /\ outcome = [k \in Conns |-> ""]
    /\ _active_bridges = [s \in {} |-> None]

\* The endpoint's way out (orders.py, the except clauses and the outer
\* finally) with the registry being reg: unregister_bridge(call_sid) when
\* call_sid is set.  The handler has returned, so the server closes the
\* telephony websocket.
EndpointExit(k, reg, sid, how) ==
    /\ pc' = [pc EXCEPT ![k] = "done"]
    /\ outcome' = [outcome EXCEPT ![k] = how]
    /\ _active_bridges' = IF sid # "" THEN unregister_bridge(reg, sid) ELSE reg
    /\ twConn' = [twConn EXCEPT ![k] = "gone"]

\* await websocket.accept()
Accept(k) ==
    /\ k \in live
    /\ pc[k] = "idle"
    /\ pc' = [pc EXCEPT ![k] = "accepted"]
    /\ twConn' = [twConn EXCEPT ![k] = "open"]
    /\ UNCHANGED << live, call_sid, ai_provider, bridge, is_connected, ai_ws, aiConn,
                    closes, aiTask, upFrame, upAudio, downFrame, downParts, twClosedByApp, aiWire, twSent,
                    nTwMedia, lastTw, twInbox, nAiAudio, outcome, _active_bridges, envVars >>

\* twilio_media_stream_websocket with no call_sid, or with no AI
\* configuration for the call's provider: await websocket.close()
RejectStream(k) ==
    /\ pc[k] = "accepted"
    /\ \E sid \in Sids \cup {""}, prov \in Providers, keyOk \in BOOLEAN :
        /\ sid = "" \/ ~(prov \in Supported /\ keyOk)
        /\ call_sid' = [call_sid EXCEPT ![k] = sid]
    /\ pc' = [pc EXCEPT ![k] = "closing"]
    /\ twClosedByApp' = [twClosedByApp EXCEPT ![k] = TRUE]
    /\ UNCHANGED << live, ai_provider, bridge, is_connected, ai_ws, aiConn, closes,
                    aiTask, upFrame, upAudio, downFrame, downParts, twConn, aiWire, twSent, nTwMedia, lastTw, twInbox,
                    nAiAudio, outcome, _active_bridges, envVars >>

\* ... the close has returned (or raised): return, through the outer finally
RejectReturn(k) ==
    /\ pc[k] = "closing"
    /\ EndpointExit(k, _active_bridges, call_sid[k],
                    IF call_sid[k] = "" THEN "no_call_sid" ELSE "no_config")
    /\ UNCHANGED << live, call_sid, ai_provider, bridge, is_connected, ai_ws, aiConn,
                    closes, aiTask, upFrame, upAudio, downFrame, downParts, twClosedByApp, aiWire, twSent,
                    nTwMedia, lastTw, twInbox, nAiAudio, envVars >>

\* twilio_media_stream_websocket with a call_sid and a configuration (there
\* is one only for a supported provider whose key is set): the bridge is
\* created and registered, connect_twilio sets is_connected and enters
\* _connect_ai, which raises for an unsupported provider and otherwise
\* suspends in websockets.connect.
OpenStream(k) ==
    /\ pc[k] = "accepted"
    /\ \E sid \in Sids, prov \in Providers, keyOk \in BOOLEAN :
        /\ prov \in Supported /\ keyOk
        /\ call_sid' = [call_sid EXCEPT ![k] = sid]
        /\ ai_provider' = [ai_provider EXCEPT ![k] = prov]
        /\ bridge' = [bridge EXCEPT ![k] = TRUE]
        /\ is_connected' = [is_connected EXCEPT ![k] = TRUE]
        /\ IF ~ConnectAiRaises(prov)
           THEN /\ _active_bridges' = register_bridge(_active_bridges, sid, k)
                /\ pc' = [pc EXCEPT ![k] = "ai_connect"]
                /\ UNCHANGED << outcome, twConn >>
           ELSE EndpointExit(k, register_bridge(_active_bridges, sid, k), sid,
                             "open_failed")
    /\ UNCHANGED << live, ai_ws, aiConn, closes, aiTask, upFrame, upAudio, downFrame, downParts,
                    twClosedByApp, aiWire, twSent, nTwMedia, lastTw, twInbox, nAiAudio, envVars >>

\* A caller other than the endpoint constructs a bridge, with a provider the
\* endpoint has no configuration for, and awaits connect_twilio(websocket):
\* twilio_ws and is_connected are set and _connect_ai raises, which ends
\* connect_twilio before its try; no registry call is made.
ConnectDirect(k) ==
    /\ pc[k] = "accepted"
    /\ \E prov \in Providers \ Supported :
        /\ ai_provider' = [ai_provider EXCEPT ![k] = prov]
        /\ bridge' = [bridge EXCEPT ![k] = TRUE]
        /\ is_connected' = [is_connected EXCEPT ![k] = TRUE]
        /\ IF ConnectAiRaises(prov)
           THEN /\ pc' = [pc EXCEPT ![k] = "done"]
                /\ outcome' = [outcome EXCEPT ![k] = "open_failed"]
           ELSE /\ pc' = [pc EXCEPT ![k] = "ai_connect"]
                /\ UNCHANGED outcome
    /\ UNCHANGED << live, call_sid, ai_ws, aiConn, closes, aiTask, upFrame, upAudio,
                    downFrame, downParts, twConn, twClosedByApp, aiWire, twSent, nTwMedia,
                    lastTw, twInbox, nAiAudio, _active_bridges, envVars >>

\* a connect that starts the receive task before the handshake is sent
AiConnectOkStartsTask(k) ==
    /\ pc[k] = "ai_connect"
    /\ ai_ws' = [ai_ws EXCEPT ![k] = "conn"]
    /\ aiConn' = [aiConn EXCEPT ![k] = "open"]
    /\ aiTask' = [aiTask EXCEPT ![k] = "recv"]
    /\ pc' = [pc EXCEPT ![k] = "ai_handshake"]
    /\ UNCHANGED << live, call_sid, ai_provider, bridge, is_connected, closes,
                    upFrame, upAudio, downFrame, downParts, twConn, twClosedByApp, aiWire,
                    twSent, nTwMedia, lastTw, twInbox, nAiAudio, outcome,
                    _active_bridges, envVars >>

\* websockets.connect returns: self.ai_ws is set and the handshake send starts
AiConnectOk(k) ==
    /\ pc[k] = "ai_connect"
    /\ ai_ws' = [ai_ws EXCEPT ![k] = "conn"]
    /\ aiConn' = [aiConn EXCEPT ![k] = "open"]
    /\ pc' = [pc EXCEPT ![k] = "ai_handshake"]
    /\ UNCHANGED << live, call_sid, ai_provider, bridge, is_connected, closes, aiTask,
                    upFrame, upAudio, downFrame, downParts, twConn, twClosedByApp, aiWire, twSent,
                    nTwMedia, lastTw, twInbox, nAiAudio, outcome, _active_bridges, envVars >>

\* websockets.connect raises: the exception leaves _connect_ai and
\* connect_twilio (whose try starts after _connect_ai) and ends the endpoint
AiConnectFail(k) ==
    /\ pc[k] = "ai_connect"
    /\ EndpointExit(k, _active_bridges, call_sid[k], "open_failed")
    /\ UNCHANGED << live, call_sid, ai_provider, bridge, is_connected, ai_ws, aiConn,
                    closes, aiTask, upFrame, upAudio, downFrame, downParts, twClosedByApp, aiWire, twSent,
                    nTwMedia, lastTw, twInbox, nAiAudio, envVars >>

\* the receive task is started without the handshake having been sent
HandshakeSkipped(k) ==
    /\ pc[k] = "ai_handshake"
    /\ aiConn[k] = "open"
    /\ aiTask' = [aiTask EXCEPT ![k] = "recv"]
    /\ pc' = [pc EXCEPT ![k] = "tw_recv"]
    /\ UNCHANGED << live, call_sid, ai_provider, bridge, is_connected, ai_ws, aiConn,
                    closes, upFrame, upAudio, downFrame, downParts, twConn, twClosedByApp, aiWire, twSent,
                    nTwMedia, lastTw, twInbox, nAiAudio, outcome, _active_bridges, envVars >>

\* ai_ws.send(session.update / setup) returns: _handle_ai_messages is
\* started, _connect_ai returns and connect_twilio awaits the first frame
HandshakeSent(k) ==
    /\ pc[k] = "ai_handshake"
    /\ aiConn[k] = "open"
    /\ aiWire' = [aiWire EXCEPT ![k] = Append(@, Handshake)]
    /\ aiTask' = [aiTask EXCEPT ![k] = "recv"]
    /\ pc' = [pc EXCEPT ![k] = "tw_recv"]
    /\ UNCHANGED << live, call_sid, ai_provider, bridge, is_connected, ai_ws, aiConn,
                    closes, upFrame, upAudio, downFrame, downParts, twConn, twClosedByApp, twSent,
                    nTwMedia, lastTw, twInbox, nAiAudio, outcome, _active_bridges, envVars >>

\* ai_ws.send(handshake) raises: as for a failed connect, no _cleanup runs
HandshakeFail(k) ==
    /\ pc[k] = "ai_handshake"
    /\ aiConn[k] # "open"
    /\ EndpointExit(k, _active_bridges, call_sid[k], "open_failed")
    /\ UNCHANGED << live, call_sid, ai_provider, bridge, is_connected, ai_ws, aiConn,
                    closes, aiTask, upFrame, upAudio, downFrame, downParts, twClosedByApp, aiWire, twSent,
                    nTwMedia, lastTw, twInbox, nAiAudio, envVars >>

\* the upstream peer closes or loses the connection
UpstreamDrop(k) ==
    /\ aiConn[k] = "open"
    /\ aiConn' = [aiConn EXCEPT ![k] = "dropped"]
    /\ UNCHANGED << live, pc, call_sid, ai_provider, bridge, is_connected, ai_ws,
                    closes, aiTask, upFrame, upAudio, downFrame, downParts, twConn, twClosedByApp, aiWire,
                    twSent, nTwMedia, lastTw, twInbox, nAiAudio, outcome, _active_bridges, envVars >>

\* the caller hangs up: the telephony websocket is gone
TwHangup(k) ==
    /\ twConn[k] = "open"
    /\ pc[k] \notin {"idle", "done"}
    /\ twConn' = [twConn EXCEPT ![k] = "gone"]
    /\ UNCHANGED << live, pc, call_sid, ai_provider, bridge, is_connected, ai_ws,
                    aiConn, closes, aiTask, upFrame, upAudio, downFrame, downParts, twClosedByApp, aiWire,
                    twSent, nTwMedia, lastTw, twInbox, nAiAudio, outcome, _active_bridges, envVars >>

\* a _handle_twilio_message that resamples to 24000 Hz for every provider
TwMediaOneRate(k) ==
    /\ pc[k] = "tw_recv"
    /\ twInbox[k] > 0
    /\ twInbox' = [twInbox EXCEPT ![k] = @ - 1]
    /\ nTwMedia' = [nTwMedia EXCEPT ![k] = @ + 1]
    /\ lastTw' = [lastTw EXCEPT ![k] = "media"]
    /\ \E payload \in TwFrames :
         LET r == UpstreamAudioOf["gemini", payload, has_numpy]
         IN  /\ upFrame' = [upFrame EXCEPT ![k] = nTwMedia[k] + 1]
             /\ upAudio' = [upAudio EXCEPT ![k] = [frame |-> payload, bytes |-> r.bytes]]
             /\ pc' = [pc EXCEPT ![k] = "ai_send"]
    /\ UNCHANGED << live, call_sid, ai_provider, bridge, is_connected, ai_ws, aiConn,
                    closes, aiTask, downFrame, downParts, twConn, twClosedByApp, aiWire, twSent,
                    nAiAudio, outcome, _active_bridges, envVars >>

\* the gateway sends a media event with a payload; it waits, behind those sent
\* before it, for the bridge's next receive_text
TwSendsMedia(k) ==
    /\ twConn[k] = "open"
    /\ nTwMedia[k] + twInbox[k] < MaxFrames
    /\ twInbox' = [twInbox EXCEPT ![k] = @ + 1]
    /\ UNCHANGED << live, pc, call_sid, ai_provider, bridge, is_connected, ai_ws,
                    aiConn, closes, aiTask, upFrame, upAudio, downFrame, downParts, twConn,
                    twClosedByApp, aiWire, twSent, nTwMedia, lastTw, nAiAudio,
                    outcome, _active_bridges, envVars >>

\* receive_text returns a media event with a payload: _handle_twilio_message
\* decodes it, resamples it from 8000 Hz to the provider's rate and suspends
\* in _send_audio_to_ai's ai_ws.send; an exception of the resampler is logged
\* by _handle_twilio_message and the loop continues
TwMedia(k) ==
    /\ pc[k] = "tw_recv"
    /\ twInbox[k] > 0
    /\ twInbox' = [twInbox EXCEPT ![k] = @ - 1]
    /\ nTwMedia' = [nTwMedia EXCEPT ![k] = @ + 1]
    /\ lastTw' = [lastTw EXCEPT ![k] = "media"]
    /\ \E payload \in TwFrames :
         LET r == UpstreamAudioOf[ai_provider[k], payload, has_numpy]
         IN  IF r.raised
             THEN UNCHANGED << upFrame, upAudio, pc >>
             ELSE /\ upFrame' = [upFrame EXCEPT ![k] = nTwMedia[k] + 1]
                  /\ upAudio' = [upAudio EXCEPT ![k] =
                                    [frame |-> payload, bytes |-> r.bytes]]
                  /\ pc' = [pc EXCEPT ![k] = "ai_send"]
    /\ UNCHANGED << live, call_sid, ai_provider, bridge, is_connected, ai_ws, aiConn,
                    closes, aiTask, downFrame, downParts, twConn, twClosedByApp, aiWire, twSent,
                    nAiAudio, outcome, _active_bridges, envVars >>

\* a control event that ends the stream: is_connected is cleared and the
\* upstream connection is closed
TwOtherEndsStream(k) ==
    /\ pc[k] = "tw_recv"
    /\ twConn[k] = "open"
    /\ twInbox[k] = 0
    /\ lastTw' = [lastTw EXCEPT ![k] = "other"]
    /\ is_connected' = [is_connected EXCEPT ![k] = FALSE]
    /\ closes' = [closes EXCEPT ![k] = @ + 1]
    /\ pc' = [pc EXCEPT ![k] = "ai_close"]
    /\ UNCHANGED << live, call_sid, ai_provider, bridge, ai_ws, aiConn, aiTask,
                    upFrame, upAudio, downFrame, downParts, twConn, twClosedByApp, aiWire,
                    twSent, twInbox, nTwMedia, nAiAudio, outcome, _active_bridges,
                    envVars >>

\* receive_text returns another event (start, stop, a media event without
\* payload, an unknown event): logged at most, and the loop continues
TwOther(k) ==
    /\ pc[k] = "tw_recv"
    /\ twConn[k] = "open"
    /\ twInbox[k] = 0
    /\ lastTw' = [lastTw EXCEPT ![k] = "other"]
    /\ UNCHANGED << live, pc, call_sid, ai_provider, bridge, is_connected, ai_ws,
                    aiConn, closes, aiTask, upFrame, upAudio, downFrame, downParts, twConn,
                    twClosedByApp, aiWire, twSent, twInbox, nTwMedia, nAiAudio, outcome,
                    _active_bridges, envVars >>

\* a malformed message whose exception leaves _handle_twilio_message and the
\* receive loop: connect_twilio's finally runs _cleanup
TwMalformedEndsCall(k) ==
    /\ pc[k] = "tw_recv"
    /\ twConn[k] = "open"
    /\ twInbox[k] = 0
    /\ lastTw' = [lastTw EXCEPT ![k] = "malformed"]
    /\ is_connected' = [is_connected EXCEPT ![k] = FALSE]
    /\ closes' = [closes EXCEPT ![k] = @ + 1]
    /\ pc' = [pc EXCEPT ![k] = "ai_close"]
    /\ UNCHANGED << live, call_sid, ai_provider, bridge, ai_ws, aiConn, aiTask,
                    upFrame, upAudio, downFrame, downParts, twConn, twClosedByApp, aiWire,
                    twSent, twInbox, nTwMedia, nAiAudio, outcome, _active_bridges, envVars >>

\* receive_text returns a malformed message (text that is not JSON, JSON that
\* is not an object, a payload that is not base64): json.loads, data.get or
\* b64decode raises inside _handle_twilio_message's try, whose except logs
\* it; nothing is sent and the loop continues
TwMalformed(k) ==
    /\ pc[k] = "tw_recv"
    /\ twConn[k] = "open"
    /\ twInbox[k] = 0
    /\ lastTw' = [lastTw EXCEPT ![k] = "malformed"]
    /\ UNCHANGED << live, pc, call_sid, ai_provider, bridge, is_connected, ai_ws,
                    aiConn, closes, aiTask, upFrame, upAudio, downFrame, downParts, twConn,
                    twClosedByApp, aiWire, twSent, twInbox, nTwMedia, nAiAudio, outcome,
                    _active_bridges, envVars >>

\* an ai_ws.send that transmits the audio message twice
AiSendOkTwice(k) ==
    /\ pc[k] = "ai_send"
    /\ aiConn[k] = "open"
    /\ aiWire' = [aiWire EXCEPT ![k] =
                     Append(Append(@, Audio(upFrame[k], upAudio[k])),
                            Audio(upFrame[k], upAudio[k]))]
    /\ upFrame' = [upFrame EXCEPT ![k] = 0]
    /\ upAudio' = [upAudio EXCEPT ![k] = NoAudio]
    /\ pc' = [pc EXCEPT ![k] = "tw_recv"]
    /\ UNCHANGED << live, call_sid, ai_provider, bridge, is_connected, ai_ws, aiConn,
                    closes, aiTask, downFrame, downParts, twConn, twClosedByApp, twSent,
                    nTwMedia, lastTw, twInbox, nAiAudio, outcome, _active_bridges,
                    envVars >>

\* ai_ws.send(audio) returns
AiSendOk(k) ==
    /\ pc[k] = "ai_send"
    /\ aiConn[k] = "open"
    /\ aiWire' = [aiWire EXCEPT ![k] = Append(@, Audio(upFrame[k], upAudio[k]))]
    /\ upFrame' = [upFrame EXCEPT ![k] = 0]
    /\ upAudio' = [upAudio EXCEPT ![k] = NoAudio]
    /\ pc' = [pc EXCEPT ![k] = "tw_recv"]
    /\ UNCHANGED << live, call_sid, ai_provider, bridge, is_connected, ai_ws, aiConn,
                    closes, aiTask, downFrame, downParts, twConn, twClosedByApp, twSent,
                    nTwMedia, lastTw, twInbox, nAiAudio, outcome, _active_bridges, envVars >>

\* ai_ws.send(audio) raises: _send_audio_to_ai logs it and the loop continues
AiSendFail(k) ==
    /\ pc[k] = "ai_send"
    /\ aiConn[k] # "open"
    /\ upFrame' = [upFrame EXCEPT ![k] = 0]
    /\ upAudio' = [upAudio EXCEPT ![k] = NoAudio]
    /\ pc' = [pc EXCEPT ![k] = "tw_recv"]
    /\ UNCHANGED << live, call_sid, ai_provider, bridge, is_connected, ai_ws, aiConn,
                    closes, aiTask, downFrame, downParts, twConn, twClosedByApp, aiWire, twSent,
                    nTwMedia, lastTw, twInbox, nAiAudio, outcome, _active_bridges, envVars >>

\* a _cleanup that clears is_connected and leaves ai_ws alone
CleanupNoClose(k) ==
    /\ is_connected' = [is_connected EXCEPT ![k] = FALSE]
    /\ EndpointExit(k, _active_bridges, call_sid[k], "ended")
    /\ UNCHANGED << closes >>

\* _cleanup up to its await: is_connected is cleared and, when ai_ws is set,
\* ai_ws.close() is issued; with no ai_ws it returns at once, and with it
\* connect_twilio and the endpoint
_cleanup(k) ==
    /\ is_connected' = [is_connected EXCEPT ![k] = FALSE]
    /\ IF ai_ws[k] # None
       THEN /\ closes' = [closes EXCEPT ![k] = @ + 1]
            /\ pc' = [pc EXCEPT ![k] = "ai_close"]
            /\ UNCHANGED << outcome, _active_bridges, twConn >>
       ELSE /\ EndpointExit(k, _active_bridges, call_sid[k], "ended")
            /\ UNCHANGED << closes >>

\* receive_text raises (the telephony websocket is gone): connect_twilio's
\* except logs it and its finally runs _cleanup
TwReceiveRaises(k) ==
    /\ pc[k] = "tw_recv"
    /\ twConn[k] = "gone"
    /\ twInbox[k] = 0
    /\ _cleanup(k)
    /\ UNCHANGED << live, call_sid, ai_provider, bridge, ai_ws, aiConn, aiTask,
                    upFrame, upAudio, downFrame, downParts, twClosedByApp, aiWire, twSent, nTwMedia, lastTw, twInbox,
                    nAiAudio, envVars >>

\* ai_ws.close() returns (or raises, which _cleanup swallows): _cleanup and
\* connect_twilio return and the endpoint unregisters the call
AiCloseDone(k) ==
    /\ pc[k] = "ai_close"
    /\ aiConn' = [aiConn EXCEPT ![k] = "closed"]
    /\ EndpointExit(k, _active_bridges, call_sid[k], "ended")
    /\ UNCHANGED << live, call_sid, ai_provider, bridge, is_connected, ai_ws, closes,
                    aiTask, upFrame, upAudio, downFrame, downParts, twClosedByApp, aiWire, twSent,
                    nTwMedia, lastTw, twInbox, nAiAudio, envVars >>

\* a _send_audio_to_twilio that sends whatever is_connected says
SendToTwilioUnguarded(k, id) ==
    IF bridge[k]
    THEN /\ downFrame' = [downFrame EXCEPT ![k] = id]
         /\ aiTask' = [aiTask EXCEPT ![k] = "tw_send"]
    ELSE /\ downFrame' = [downFrame EXCEPT ![k] = 0]
         /\ aiTask' = [aiTask EXCEPT ![k] = "recv"]

\* _send_audio_to_twilio up to its await, for audio chunk id: the chunk goes
\* to twilio_ws.send_text only if twilio_ws is set and is_connected holds
SendToTwilio(k, id) ==
    IF bridge[k] /\ is_connected[k]
    THEN /\ downFrame' = [downFrame EXCEPT ![k] = id]
         /\ aiTask' = [aiTask EXCEPT ![k] = "tw_send"]
    ELSE /\ downFrame' = [downFrame EXCEPT ![k] = 0]
         /\ aiTask' = [aiTask EXCEPT ![k] = "recv"]

\* The audio chunks of one upstream event, n of them left: each is resampled,
\* encoded and given to _send_audio_to_twilio in turn.  The task suspends in
\* the send of the first of them; when _send_audio_to_twilio returns without
\* sending, the loop goes on to the next chunk at once, which fares the same.
\* An OpenAI event carries one chunk, a Gemini event one per audio part.
ProcessAudioParts(k, n) ==
    /\ SendToTwilio(k, nAiAudio[k] + 1)
    /\ IF aiTask'[k] = "tw_send"
       THEN /\ nAiAudio' = [nAiAudio EXCEPT ![k] = @ + 1]
            /\ downParts' = [downParts EXCEPT ![k] = n - 1]
       ELSE /\ nAiAudio' = [nAiAudio EXCEPT ![k] = @ + n]
            /\ downParts' = [downParts EXCEPT ![k] = 0]

\* _send_audio_to_twilio has returned: the next audio part of the event in
\* hand, or back to ai_ws.recv() when there is none
AfterSend(k) ==
    IF downParts[k] > 0
    THEN ProcessAudioParts(k, downParts[k])
    ELSE /\ downFrame' = [downFrame EXCEPT ![k] = 0]
         /\ aiTask' = [aiTask EXCEPT ![k] = "recv"]
         /\ UNCHANGED << nAiAudio, downParts >>

\* ai_ws.recv() returns the upstream's acknowledgement of the handshake
\* (session.updated / setupComplete): no branch of _process_*_message acts
\* an acknowledgement that marks the bridge connected
AiAckReconnects(k) ==
    /\ aiTask[k] = "recv"
    /\ aiConn[k] = "open"
    /\ Ack \notin Entries(aiWire[k])
    /\ aiWire' = [aiWire EXCEPT ![k] = Append(@, Ack)]
    /\ is_connected' = [is_connected EXCEPT ![k] = TRUE]
    /\ UNCHANGED << live, pc, call_sid, ai_provider, bridge, ai_ws, aiConn,
                    closes, aiTask, upFrame, upAudio, downFrame, downParts, twConn, twClosedByApp, twSent,
                    nTwMedia, lastTw, twInbox, nAiAudio, outcome, _active_bridges, envVars >>

AiAck(k) ==
    /\ aiTask[k] = "recv"
    /\ aiConn[k] = "open"
    /\ Ack \notin Entries(aiWire[k])
    /\ aiWire' = [aiWire EXCEPT ![k] = Append(@, Ack)]
    /\ UNCHANGED << live, pc, call_sid, ai_provider, bridge, is_connected, ai_ws, aiConn,
                    closes, aiTask, upFrame, upAudio, downFrame, downParts, twConn, twClosedByApp, twSent,
                    nTwMedia, lastTw, twInbox, nAiAudio, outcome, _active_bridges, envVars >>

\* ai_ws.recv() returns an audio event: a response.audio.delta with a delta
\* (one chunk), or a serverContent whose modelTurn has one or more inlineData
\* audio parts (one chunk each)
AiAudio(k) ==
    /\ aiTask[k] = "recv"
    /\ aiConn[k] = "open"
    /\ nAiAudio[k] < MaxFrames
    /\ \E n \in 1..(IF ai_provider[k] = "gemini" THEN MaxFrames - nAiAudio[k] ELSE 1) :
         ProcessAudioParts(k, n)
    /\ UNCHANGED << live, pc, call_sid, ai_provider, bridge, is_connected, ai_ws, aiConn,
                    closes, upFrame, upAudio, twConn, twClosedByApp, aiWire, twSent, nTwMedia, lastTw, twInbox,
                    outcome, _active_bridges, envVars >>

\* a text event that is given to _send_audio_to_twilio as if it were audio
AiTextEmits(k) ==
    /\ aiTask[k] = "recv"
    /\ aiConn[k] = "open"
    /\ SendToTwilio(k, nAiAudio[k] + 1)
    /\ UNCHANGED << live, pc, call_sid, ai_provider, bridge, is_connected, ai_ws,
                    aiConn, closes, upFrame, upAudio, twConn, twClosedByApp, aiWire,
                    twSent, nTwMedia, lastTw, twInbox, nAiAudio, downParts, outcome,
                    _active_bridges, envVars >>

\* ai_ws.recv() returns a binary message, a text event, an event of another
\* type, or audio that fails to decode: skipped or logged, the loop continues
AiOther(k) ==
    /\ aiTask[k] = "recv"
    /\ aiConn[k] = "open"
    /\ UNCHANGED vars

\* ai_ws.recv() returns text that is not JSON: json.loads raises inside the
\* loop's try, whose except logs it and ends _handle_ai_messages
AiBadJson(k) ==
    /\ aiTask[k] = "recv"
    /\ aiConn[k] = "open"
    /\ aiTask' = [aiTask EXCEPT ![k] = "ended"]
    /\ UNCHANGED << live, pc, call_sid, ai_provider, bridge, is_connected, ai_ws, aiConn,
                    closes, upFrame, upAudio, downFrame, downParts, twConn, twClosedByApp, aiWire, twSent,
                    nTwMedia, lastTw, twInbox, nAiAudio, outcome, _active_bridges, envVars >>

\* a receive task that opens a new upstream connection when recv raises
AiRecvRaisesReconnects(k) ==
    /\ aiTask[k] = "recv"
    /\ aiConn[k] \in {"dropped", "closed"}
    /\ aiConn' = [aiConn EXCEPT ![k] = "open"]
    /\ aiWire' = [aiWire EXCEPT ![k] = Append(@, Handshake)]
    /\ UNCHANGED << live, pc, call_sid, ai_provider, bridge, is_connected, ai_ws,
                    closes, aiTask, upFrame, upAudio, downFrame, downParts, twConn,
                    twClosedByApp, twSent, nTwMedia, lastTw, twInbox, nAiAudio,
                    outcome, _active_bridges, envVars >>

\* ai_ws.recv() raises (the connection was dropped or closed): the except
\* logs it and _handle_ai_messages ends; nothing else is done
AiRecvRaises(k) ==
    /\ aiTask[k] = "recv"
    /\ aiConn[k] \in {"dropped", "closed"}
    /\ aiTask' = [aiTask EXCEPT ![k] = "ended"]
    /\ UNCHANGED << live, pc, call_sid, ai_provider, bridge, is_connected, ai_ws, aiConn,
                    closes, upFrame, upAudio, downFrame, downParts, twConn, twClosedByApp, aiWire, twSent,
                    nTwMedia, lastTw, twInbox, nAiAudio, outcome, _active_bridges, envVars >>

\* a send_text that completes only while the main loop is not waiting for
\* the next telephony message
TwSendOkPolled(k) ==
    /\ aiTask[k] = "tw_send"
    /\ twConn[k] = "open"
    /\ pc[k] # "tw_recv"
    /\ twSent' = [twSent EXCEPT ![k] = Append(@, downFrame[k])]
    /\ AfterSend(k)
    /\ UNCHANGED << live, pc, call_sid, ai_provider, bridge, is_connected, ai_ws,
                    aiConn, closes, upFrame, upAudio, twConn, twClosedByApp, aiWire,
                    nTwMedia, lastTw, twInbox, outcome, _active_bridges,
                    envVars >>

\* twilio_ws.send_text(media frame) returns
TwSendOk(k) ==
    /\ aiTask[k] = "tw_send"
    /\ twConn[k] = "open"
    /\ twSent' = [twSent EXCEPT ![k] = Append(@, downFrame[k])]
    /\ AfterSend(k)
    /\ UNCHANGED << live, pc, call_sid, ai_provider, bridge, is_connected, ai_ws, aiConn,
                    closes, upFrame, upAudio, twConn, twClosedByApp, aiWire, nTwMedia, lastTw, twInbox,
                    outcome, _active_bridges, envVars >>

\* twilio_ws.send_text raises: _send_audio_to_twilio logs it
TwSendFail(k) ==
    /\ aiTask[k] = "tw_send"
    /\ twConn[k] # "open"
    /\ AfterSend(k)
    /\ UNCHANGED << live, pc, call_sid, ai_provider, bridge, is_connected, ai_ws, aiConn,
                    closes, upFrame, upAudio, twConn, twClosedByApp, aiWire, twSent, nTwMedia, lastTw, twInbox,
                    outcome, _active_bridges, envVars >>

(***************************************************************************)
(* Specifications                                                          *)
(***************************************************************************)
\* what the peers do: the gateway opens the stream, sends frames, hangs up;
\* the upstream sends events, drops the connection
Peers(k) ==
    \/ Accept(k) \/ TwSendsMedia(k) \/ TwOther(k) \/ TwMalformed(k) \/ TwHangup(k)
    \/ AiAck(k) \/ AiAudio(k) \/ AiOther(k) \/ AiBadJson(k) \/ UpstreamDrop(k)

\* what the event loop does, once the operation it awaits has completed, with
\* the endpoint's coroutine (the handler, connect_twilio, _cleanup) ...
MainSteps(k) ==
    \/ RejectStream(k) \/ RejectReturn(k) \/ OpenStream(k) \/ ConnectDirect(k)
    \/ AiConnectOk(k) \/ AiConnectFail(k)
    \/ HandshakeSent(k) \/ HandshakeFail(k)
    \/ TwMedia(k) \/ AiSendOk(k) \/ AiSendFail(k)
    \/ TwReceiveRaises(k) \/ AiCloseDone(k)

\* ... and with the task running _handle_ai_messages
TaskSteps(k) == AiRecvRaises(k) \/ TwSendOk(k) \/ TwSendFail(k)

Init ==
    /\ InitBridge({"k1"})
    /\ has_numpy \in BOOLEAN
    /\ regOp = NoOp
    /\ job = NoJob

Next == \E k \in Conns : Peers(k) \/ MainSteps(k) \/ TaskSteps(k)

Spec == Init /\ [][Next]_vars

\* Every operation the bridge awaits completes (returns or raises) and the
\* event loop resumes the coroutine or task that awaited it; nothing is
\* assumed of what the peers send or of when they hang up.
FairSpec == Spec /\ \A k \in Conns : WF_vars(MainSteps(k)) /\ WF_vars(TaskSteps(k))

InitCodec ==
    /\ InitBridge({})
    /\ job \in RoundTripJobs \cup ResampleJobs \cup LongResampleJobs \cup EncodeJobs
    /\ has_numpy = job.numpy
    /\ regOp = NoOp

SpecCodec == InitCodec /\ [][NextCodec]_vars

\* Two media-stream connections open at once, on calls in which neither the
\* gateway nor the upstream sends a message: the endpoint, the opening of the
\* upstream session, the hang-up and the release.
InitTwoCalls ==
    /\ InitBridge(Conns)
    /\ has_numpy = FALSE
    /\ regOp = NoOp
    /\ job = NoJob

NextTwoCalls ==
    \E k \in Conns :
        \/ Accept(k) \/ RejectStream(k) \/ RejectReturn(k) \/ OpenStream(k)
        \/ AiConnectOk(k) \/ AiConnectFail(k) \/ HandshakeSent(k) \/ HandshakeFail(k)
        \/ UpstreamDrop(k) \/ TwHangup(k)
        \/ TwReceiveRaises(k) \/ AiCloseDone(k) \/ AiRecvRaises(k)

SpecTwoCalls == InitTwoCalls /\ [][NextTwoCalls]_vars

\* the registry functions called in any order, from an empty registry
InitRegistry ==
    /\ InitBridge({})
    /\ has_numpy = FALSE
    /\ regOp = NoOp
    /\ job = NoJob

SpecRegistry == InitRegistry /\ [][NextRegistry]_vars

(***************************************************************************)
(* Claims                                                                  *)
(***************************************************************************)
Streaming(k) == pc[k] \in {"tw_recv", "ai_send"}

\* C1: if the upstream connection errors or closes while the bridge is
\* streaming (recv raises in _handle_ai_messages), the bridge eventually is
\* closed (is_connected false, upstream connection closed) and get_bridge
\* of its call_sid eventually returns None, whatever the telephony side does.
C1_UpstreamErrorLeadsToClosed ==
    \A k \in Conns :
        (Streaming(k) /\ aiConn[k] = "dropped" /\ aiTask[k] = "ended")
        ~> (/\ ~is_connected[k]
            /\ aiConn[k] = "closed"
            /\ get_bridge(_active_bridges, call_sid[k]) = None)

\* C2: when opening the upstream session fails (the connect or the handshake
\* send raises), the bridge is closed: is_connected is false and a close has
\* been issued on an upstream connection that was opened.
C2_FailedOpenClosesBridge ==
    \A k \in Conns :
        outcome[k] = "open_failed"
        => ~is_connected[k] /\ (ai_ws[k] # None => closes[k] >= 1)

\* C3: when the telephony side disconnects while the bridge is streaming,
\* the endpoint eventually has ended with the upstream connection closed, the
\* bridge not connected and the bridge no longer in the registry.
C3_TelephonyDisconnectLeadsToClosed ==
    \A k \in Conns :
        (Streaming(k) /\ twConn[k] = "gone")
        ~> (/\ pc[k] = "done"
            /\ ~is_connected[k]
            /\ aiConn[k] = "closed"
            /\ get_bridge(_active_bridges, call_sid[k]) # k)

C3_Witness ==
    \E k \in Conns :
        /\ outcome[k] = "ended" /\ nTwMedia[k] > 0
        /\ ~is_connected[k] /\ aiConn[k] = "closed"
        /\ get_bridge(_active_bridges, call_sid[k]) = None

\* C4: whichever way a call ends, close has been issued exactly once on
\* every upstream connection that was opened.
C4_CloseIssuedExactlyOnce ==
    \A k \in Conns : pc[k] = "done" /\ ai_ws[k] # None => closes[k] = 1

\* The bridge's state as its fields give it: no bridge yet; Connecting while
\* is_connected holds and the receive task has not been started; Streaming
\* once it has; Closed once is_connected has been cleared.
BridgeState(k) ==
    IF ~bridge[k] THEN "NoBridge"
    ELSE IF ~is_connected[k] THEN "Closed"
    ELSE IF aiTask[k] = "none" THEN "Connecting"
    ELSE "Streaming"

Rank(st) ==
    CASE st = "NoBridge" -> 0
      [] st = "Connecting" -> 1
      [] st = "Streaming" -> 2
      [] st = "Closed" -> 3

\* C5: the bridge's state only moves forward along Connecting -> Streaming
\* -> Closed: no step takes it backwards, and no step takes a Closed bridge
\* to any other state.
C5_StateMovesForward ==
    [][\A k \in Conns :
          /\ Rank(BridgeState(k)') >= Rank(BridgeState(k))
          /\ (BridgeState(k) = "Connecting"
                => BridgeState(k)' \in {"Connecting", "Streaming", "Closed"})
          /\ (BridgeState(k) = "Closed" => BridgeState(k)' = "Closed")]_vars

C5_Witness ==
    \E k \in Conns :
        /\ BridgeState(k) = "Closed" /\ pc[k] = "done"
        /\ aiTask[k] = "ended" /\ Ack \in Entries(aiWire[k])

Count(log, e) == Cardinality({i \in DOMAIN log : log[i] = e})
AudioAt(log) == {i \in DOMAIN log : log[i].t = "audio"}

\* C6: on every upstream connection at most one handshake message is sent,
\* exactly one once the session is open (the receive task was started), and
\* it is sent before any audio message.
C6_OneHandshakeBeforeAudio ==
    \A k \in Conns :
        /\ Count(aiWire[k], Handshake) <= 1
        /\ (aiTask[k] # "none" => Count(aiWire[k], Handshake) = 1)
        /\ \A i \in AudioAt(aiWire[k]) : \E j \in 1..(i - 1) : aiWire[k][j] = Handshake

C6_Witness ==
    \E k \in Conns :
        /\ Count(aiWire[k], Handshake) = 1
        /\ Cardinality(AudioAt(aiWire[k])) = MaxFrames

\* C7: every audio message sent upstream comes after the acknowledgement of
\* the handshake was received from the upstream.
C7_NoAudioBeforeAck ==
    \A k \in Conns :
        \A i \in AudioAt(aiWire[k]) : \E j \in 1..(i - 1) : aiWire[k][j] = Ack

\* Standard mu-law expansion (ITU-T G.711) of a byte, and the quantization
\* step of the byte's segment: the reference the decoder is compared with
StdExpand(byte) ==
    LET inv == 255 - byte
        t   == ((inv % 16) * 8 + 132) * Pow2((inv \div 16) % 8)
    IN  IF inv >= 128 THEN 132 - t ELSE t - 132

StdStep(byte) == Pow2((((255 - byte) \div 16) % 8) + 3)

\* C8: for every byte x, encoding the decoded sample recovers x within one
\* quantization step: the byte itself, or a byte whose amplitude is within
\* one step of x's.
C8_RoundTripWithinOneStep ==
    (job.op = "roundtrip" /\ job.stage = "encoded")
    => LET x == job.inp[1]
           y == job.out.bytes[1]
       IN  y = x \/ Abs(StdExpand(y) - StdExpand(x)) <= StdStep(x)

\* C9: for every byte, _mulaw_to_pcm16 yields the sample standard mu-law
\* expansion assigns to it, to one quantization step, and the value it
\* computes fits a signed 16-bit sample.
C9_DecodeIsStandardExpansion ==
    (job.op = "roundtrip" /\ job.stage = "decoded")
    => LET x == job.inp[1]
           s == UnpackInt16(job.pcm[1], job.pcm[2])
       IN  /\ Abs(s - StdExpand(x)) <= StdStep(x)
           /\ MulawLinear(x) \in -32768..32767

\* C10: _resample_audio(pcm, r, r) returns pcm unchanged.
C10_SameRateIsIdentity ==
    (job.op = "resample" /\ job.stage = "resampled" /\ job.from = job.to)
    => job.out = Returned(job.inp)

C10_Witness ==
    /\ job.op = "resample" /\ job.stage = "resampled" /\ job.from = job.to
    /\ Len(job.inp) = MaxBytes /\ job.inp[1] # job.inp[2]
    /\ job.out = Returned(job.inp)

\* C11: for the rate pairs 8000->16000 and 24000->8000 and a non-empty buffer
\* of whole samples, _resample_audio returns len(pcm) * to_rate / from_rate
\* bytes to within one sample (two bytes), with numpy and without.
C11_LengthScalesWithRate ==
    (/\ job.op = "resample" /\ job.stage = "resampled"
     /\ << job.from, job.to >> \in {<< 8000, 16000 >>, << 24000, 8000 >>}
     /\ Len(job.inp) % 2 = 0 /\ Len(job.inp) > 0)
    => /\ ~job.out.raised
       /\ Abs(Len(job.out.bytes) * job.from - Len(job.inp) * job.to) <= 2 * job.from

\* C12: _pcm16_to_mulaw yields one byte in 0..255 per whole input sample, and
\* a sample of magnitude above 32635 yields the byte of the sample of the same
\* sign and magnitude 32635.
C12_EncodeClamps ==
    (job.op = "encode" /\ job.stage = "encoded")
    => LET out == job.out.bytes
           smp == Samples(SubSeq(job.inp, 1, 2 * (Len(job.inp) \div 2)))
       IN  /\ Len(out) = Len(job.inp) \div 2
           /\ \A i \in DOMAIN out :
                /\ out[i] \in Bytes
                /\ smp[i] > 32635 => out[i] = _pcm16_to_mulaw(PackInt16(32635))[1]
                /\ smp[i] < -32635 => out[i] = _pcm16_to_mulaw(PackInt16(-32635))[1]

C12_Witness ==
    /\ job.op = "encode" /\ job.stage = "encoded"
    /\ job.inp = PackInt16(-32768)
    /\ job.out.bytes = << 0 >>

\* C13 as stated: with provider "openai", the upstream audio message sent for
\* a 160-byte media frame carries a buffer of 320 bytes.
C13_FrameSendsBufferOf320 ==
    \A k \in Conns : ai_provider[k] = "openai" =>
        \A i \in DOMAIN aiWire[k] :
            (aiWire[k][i].t = "audio" /\ aiWire[k][i].frame = 160)
            => aiWire[k][i].bytes = 320

\* a telephony payload decoded and resampled from 8000 to 16000 Hz
DecodedAt16k ==
    [payload \in TwFrames, numpy \in BOOLEAN |->
        _resample_audio(_mulaw_to_pcm16(payload), 8000, 16000, numpy).bytes]

\* C13, amended: with provider "openai", every media frame received while the
\* bridge streams starts exactly one upstream audio send; the buffer handed to
\* it is the frame decoded and resampled from 8000 to 16000 Hz, four bytes for
\* each byte of the frame: 640 bytes for a 160-byte frame.
C13_FrameSendsOneBuffer ==
    \A k \in Conns : ai_provider[k] = "openai" =>
        /\ pc[k] = "ai_send" =>
             /\ upFrame[k] = nTwMedia[k]
             /\ Count(aiWire[k], Audio(upFrame[k], upAudio[k])) = 0
             /\ upAudio[k].bytes = DecodedAt16k[upAudio[k].frame, has_numpy]
             /\ Len(upAudio[k].bytes) = 4 * Len(upAudio[k].frame)
        /\ \A i \in DOMAIN aiWire[k] : aiWire[k][i].t = "audio" =>
             /\ aiWire[k][i].id \in 1..nTwMedia[k]
             /\ \A j \in DOMAIN aiWire[k] : aiWire[k][j].id = aiWire[k][i].id => j = i
             /\ aiWire[k][i].bytes = 4 * aiWire[k][i].frame
             /\ aiWire[k][i].frame = 160 => aiWire[k][i].bytes = 640

C13_Witness ==
    \E k \in Conns :
        /\ ai_provider[k] = "openai"
        /\ nTwMedia[k] = 1
        /\ aiWire[k] = << Handshake, [t |-> "audio", id |-> 1, frame |-> 160, bytes |-> 640] >>

\* C14: every audio chunk emitted to the telephony websocket, or about to be,
\* is one upstream audio message received before, each emitted at most once;
\* a step that handles a telephony message emits none.
C14_TelephonyAudioOnlyFromUpstream ==
    /\ [](\A k \in Conns :
            /\ downFrame[k] \in 0..nAiAudio[k]
            /\ \A i \in DOMAIN twSent[k] :
                 /\ twSent[k][i] \in 1..nAiAudio[k]
                 /\ \A j \in DOMAIN twSent[k] : twSent[k][j] = twSent[k][i] => j = i)
    /\ [][\A k \in Conns :
            (nTwMedia'[k] # nTwMedia[k] \/ lastTw'[k] # lastTw[k])
            => (twSent'[k] = twSent[k] /\ downFrame'[k] = downFrame[k])]_vars

C14_Witness ==
    \E k \in Conns :
        /\ nTwMedia[k] > 0 /\ lastTw[k] = "media"
        /\ nAiAudio[k] = 1 /\ twSent[k] = << 1 >>

\* C15: after register_bridge(id, b), get_bridge(id) returns b; after
\* unregister_bridge(id) it returns None; and unregister_bridge of an id that
\* is not registered leaves the registry as it was.
C15_RegistryLookup ==
    /\ regOp.op = "register" => get_bridge(_active_bridges, regOp.sid) = regOp.b
    /\ regOp.op = "unregister" =>
         /\ get_bridge(_active_bridges, regOp.sid) = None
         /\ get_bridge(regOp.before, regOp.sid) = None => _active_bridges = regOp.before

C15_Witness ==
    /\ regOp.op = "unregister"
    /\ get_bridge(regOp.before, regOp.sid) = None
    /\ get_bridge(_active_bridges, "c1") = "k1"

\* C16: under every interleaving of registry calls on distinct call ids, the
\* entry of each id is what the last call made for that id left, and a call
\* for one id leaves the entries of the other ids as they were.
C16_CallIdsIndependent ==
    /\ [](\A s \in RegSids : get_bridge(_active_bridges, s) = regOp.last[s])
    /\ [][\A s \in RegSids : s # regOp'.sid =>
            get_bridge(_active_bridges', s) = get_bridge(_active_bridges, s)]_vars

C16_Witness ==
    /\ regOp.op = "unregister" /\ regOp.sid = "c2"
    /\ get_bridge(regOp.before, "c2") = "k2"
    /\ get_bridge(_active_bridges, "c1") = "k1"
    /\ get_bridge(_active_bridges, "c3") = "k2"
    /\ get_bridge(_active_bridges, "c2") = None

\* the bridges the registry holds under a call id
RegisteredUnder(reg, sid) == {b \in Conns : get_bridge(reg, sid) = b}

\* C17: the registry holds at most one bridge under a call id; a
\* register_bridge for an id that is already registered leaves exactly the
\* new bridge under that id and adds no entry.
C17_OneBridgePerCallId ==
    /\ \A s \in RegSids : Cardinality(RegisteredUnder(_active_bridges, s)) <= 1
    /\ (regOp.op = "register" /\ regOp.sid \in DOMAIN regOp.before) =>
         /\ RegisteredUnder(_active_bridges, regOp.sid) = {regOp.b}
         /\ DOMAIN _active_bridges = DOMAIN regOp.before

C17_Witness ==
    /\ regOp.op = "register"
    /\ get_bridge(regOp.before, regOp.sid) = "k1"
    /\ regOp.b = "k2"
    /\ RegisteredUnder(_active_bridges, regOp.sid) = {"k2"}

\* C18: a bridge created with a provider other than 'openai' and 'gemini' has
\* connect_twilio end by the error _connect_ai raises, with no upstream
\* connection opened, no receive task started, no telephony message read and
\* no audio sent either way.
C18_UnsupportedProviderRejected ==
    \A k \in Conns : (bridge[k] /\ ai_provider[k] \notin Supported) =>
        /\ pc[k] = "done" /\ outcome[k] = "open_failed"
        /\ ai_ws[k] = None /\ aiConn[k] = "none" /\ aiTask[k] = "none"
        /\ nTwMedia[k] = 0 /\ lastTw[k] = ""
        /\ aiWire[k] = << >> /\ twSent[k] = << >>

C18_Witness ==
    \E k \in Conns :
        /\ bridge[k] /\ ai_provider[k] = "other"
        /\ outcome[k] = "open_failed" /\ aiConn[k] = "none"

\* C19: a malformed telephony message is dropped: the step that handles it
\* sends nothing upstream or to telephony and closes nothing, the receive loop
\* goes on until the telephony websocket is gone, and a media frame read after
\* it is handed to the upstream send like any other.
C19_MalformedTelephonyDropped ==
    /\ [](\A k \in Conns : lastTw[k] = "malformed" =>
            \/ pc[k] = "tw_recv" /\ is_connected[k] /\ upFrame[k] = 0
            \/ twConn[k] = "gone")
    /\ [][\A k \in Conns :
            /\ (lastTw'[k] = "malformed" /\ lastTw[k] # "malformed") =>
                 /\ pc'[k] = pc[k] /\ is_connected'[k] = is_connected[k]
                 /\ aiWire'[k] = aiWire[k] /\ twSent'[k] = twSent[k]
                 /\ closes'[k] = closes[k] /\ nTwMedia'[k] = nTwMedia[k]
            /\ (lastTw[k] = "malformed" /\ nTwMedia'[k] # nTwMedia[k]) =>
                 /\ pc'[k] = "ai_send" /\ upFrame'[k] = nTwMedia'[k]
                 /\ upAudio'[k].frame \in TwFrames]_vars

C19_Witness ==
    \E k \in Conns :
        /\ lastTw[k] = "malformed" /\ pc[k] = "tw_recv" /\ twConn[k] = "open"
        /\ is_connected[k] /\ aiConn[k] = "open"
        /\ nTwMedia[k] = 1 /\ Len(aiWire[k]) = 2

\* C20: a malformed upstream message does not end the call: while the
\* upstream connection is open, the task that receives from it is running,
\* so that later audio messages are still relayed.
C20_MalformedUpstreamDropped ==
    \A k \in Conns : (aiConn[k] = "open" /\ aiTask[k] # "none") => aiTask[k] # "ended"

\* C21: the two directions progress independently.  An upstream audio chunk
\* handed to the telephony send is emitted (unless the telephony websocket is
\* gone) whatever the main loop awaits and whether or not the gateway sends
\* anything more; a telephony frame handed to the upstream send is sent
\* (unless the upstream connection is lost) whether or not the upstream sends
\* anything.
C21_PumpsRunConcurrently ==
    /\ \A k \in Conns :
        /\ aiTask[k] = "tw_send" ~> aiTask[k] # "tw_send"
        /\ pc[k] = "ai_send" ~> pc[k] # "ai_send"
    /\ [][\A k \in Conns :
            /\ (aiTask[k] = "tw_send" /\ twConn[k] = "open"
                  /\ (aiTask'[k] # "tw_send" \/ downFrame'[k] # downFrame[k]))
                 => twSent'[k] = Append(twSent[k], downFrame[k])
            /\ (pc[k] = "ai_send" /\ pc'[k] # "ai_send" /\ aiConn[k] = "open")
                 => aiWire'[k] = Append(aiWire[k], Audio(upFrame[k], upAudio[k]))]_vars

C21_Witness ==
    \E k \in Conns :
        /\ pc[k] = "tw_recv" /\ twConn[k] = "open"
        /\ nTwMedia[k] = 0 /\ twInbox[k] = 0 /\ lastTw[k] = ""
        /\ twSent[k] = << 1 >>

\* the telephony frames awaiting delivery to the upstream: sent by the
\* gateway, and neither sent upstream nor discarded yet
AwaitingUpstream(k) == twInbox[k] + (IF upFrame[k] # 0 THEN 1 ELSE 0)

\* C22: the frames awaiting delivery never exceed a fixed cap, the oldest
\* being discarded when a frame arrives at the cap.  The bridge holds one
\* frame for each direction, the one whose send it awaits; with that cap, a
\* frame that arrives while the upstream send of another is awaited replaces
\* it, so that no frame waits behind an older one.
C22_BoundedDropOldest ==
    \A k \in Conns : pc[k] = "ai_send" => AwaitingUpstream(k) <= 1

\* C23: the step that handles a telephony control event (start, stop) sends
\* nothing upstream, hands nothing to the telephony send, and leaves
\* is_connected, the upstream connection, the main loop and the registry as
\* they were.
C23_ControlEventObserved ==
    [][\A k \in Conns : (lastTw'[k] = "other" /\ lastTw[k] # "other") =>
          /\ aiWire'[k] = aiWire[k] /\ upFrame'[k] = upFrame[k]
          /\ twSent'[k] = twSent[k] /\ downFrame'[k] = downFrame[k]
          /\ is_connected'[k] = is_connected[k]
          /\ ai_ws'[k] = ai_ws[k] /\ aiConn'[k] = aiConn[k] /\ closes'[k] = closes[k]
          /\ pc'[k] = pc[k] /\ aiTask'[k] = aiTask[k]
          /\ _active_bridges' = _active_bridges]_vars

C23_Witness ==
    \E k \in Conns :
        /\ lastTw[k] = "other" /\ pc[k] = "tw_recv"
        /\ is_connected[k] /\ aiConn[k] = "open"
        /\ get_bridge(_active_bridges, call_sid[k]) = k

\* C24: while connect_twilio is inside _connect_ai (the upstream connection
\* being opened or its handshake being sent), no telephony message has been
\* read, no audio has been sent upstream, the receive task does not exist and
\* nothing has been received from the upstream or emitted to telephony.
C24_NothingRelayedWhileConnecting ==
    \A k \in Conns : pc[k] \in {"ai_connect", "ai_handshake"} =>
        /\ nTwMedia[k] = 0 /\ lastTw[k] = "" /\ upFrame[k] = 0
        /\ AudioAt(aiWire[k]) = {}
        /\ aiTask[k] = "none" /\ nAiAudio[k] = 0
        /\ downFrame[k] = 0 /\ twSent[k] = << >>

C24_Witness ==
    \E k \in Conns :
        /\ pc[k] = "ai_handshake" /\ aiConn[k] = "open"
        /\ twInbox[k] > 0 /\ nTwMedia[k] = 0

\* C25: a bridge opens at most one upstream connection and sends at most one
\* handshake; once that connection is dropped or closed, no step opens a
\* connection, replaces ai_ws or sends a handshake.
C25_NoRetries ==
    /\ [](\A k \in Conns : Count(aiWire[k], Handshake) <= 1)
    /\ [][\A k \in Conns :
            /\ (aiConn'[k] = "open" /\ aiConn[k] # "open") =>
                 (aiConn[k] = "none" /\ ai_ws[k] = None)
            /\ aiConn[k] \in {"dropped", "closed"} =>
                 /\ aiConn'[k] \in {"dropped", "closed"}
                 /\ ai_ws'[k] = ai_ws[k]
                 /\ Count(aiWire'[k], Handshake) = Count(aiWire[k], Handshake)]_vars

C25_Witness ==
    \E k \in Conns :
        /\ aiConn[k] = "dropped" /\ aiTask[k] = "ended"
        /\ pc[k] = "tw_recv" /\ lastTw[k] = "media" /\ nTwMedia[k] = 1
        /\ aiWire[k] = << Handshake >>

\* C26: for a bridge the endpoint created, the upstream session is opened and
\* the frames are pumped only while the bridge is registered, and the bridge
\* is deregistered (the endpoint has returned) only after both channels were
\* released and the pumps ended: is_connected is cleared, the upstream
\* connection, if one was opened, is closed, and the receive task is over.
C26_LifecycleOrder ==
    \A k \in Conns : (bridge[k] /\ call_sid[k] # "") =>
        /\ (pc[k] # "done" /\ (aiConn[k] # "none" \/ Streaming(k)))
             => get_bridge(_active_bridges, call_sid[k]) = k
        /\ pc[k] = "done" =>
             /\ ~is_connected[k]
             /\ aiConn[k] \in {"none", "closed"}
             /\ aiTask[k] \in {"none", "ended"}

\* C27: from its registration by the endpoint until its telephony loop has
\* ended, a bridge is what get_bridge returns for its call_sid, whatever other
\* media-stream connections do.
C27_LiveBridgeIsRegistered ==
    \A k \in Conns :
        (bridge[k] /\ call_sid[k] # ""
           /\ pc[k] \in {"ai_connect", "ai_handshake", "tw_recv", "ai_send"})
        => get_bridge(_active_bridges, call_sid[k]) = k

\* C28: an endpoint invocation that ends without having created a bridge (it
\* closed the websocket for want of a call_sid or of a configuration) returns
\* with the registry as it was.
C28_RejectedStreamLeavesRegistry ==
    [][\A k \in Conns : (pc[k] = "closing" /\ pc'[k] = "done")
          => _active_bridges' = _active_bridges]_vars

\* the ids of the audio messages of an upstream wire log, in the order sent
AudioIds(log) ==
    LET IsAudio(e) == e.t = "audio"
        sent == SelectSeq(log, IsAudio)
    IN  [i \in DOMAIN sent |-> sent[i].id]
Increasing(ids) == \A i, j \in DOMAIN ids : i < j => ids[i] < ids[j]
UpTo(n) == [i \in 1..n |-> i]

\* C29: the relay keeps order and count in each direction. The audio
\* messages sent upstream carry the telephony frames in the order received,
\* and the media frames sent to telephony carry the upstream audio chunks in
\* the order received, none twice; and while the destination connection is
\* open (and, downstream, the bridge connected) every frame or chunk received
\* so far has been sent exactly once, except the one whose send is in progress.
C29_RelayKeepsOrderAndCount ==
    \A k \in Conns :
        /\ Increasing(AudioIds(aiWire[k]))
        /\ Increasing(twSent[k])
        /\ (Streaming(k) /\ aiConn[k] = "open")
             => AudioIds(aiWire[k])
                  = UpTo(nTwMedia[k] - (IF upFrame[k] # 0 THEN 1 ELSE 0))
        /\ (Streaming(k) /\ twConn[k] = "open" /\ is_connected[k])
             => twSent[k] = UpTo(nAiAudio[k] - (IF downFrame[k] # 0 THEN 1 ELSE 0))

C29_Witness ==
    \E k \in Conns :
        /\ Streaming(k) /\ aiConn[k] = "open" /\ twConn[k] = "open"
        /\ nTwMedia[k] = 2 /\ nAiAudio[k] = 2
        /\ AudioIds(aiWire[k]) = << 1, 2 >>
        /\ twSent[k] = << 1, 2 >>

\* the bridge is closed: _cleanup has cleared is_connected
Closed(k) == bridge[k] /\ ~is_connected[k]

\* C30: once the bridge is closed no audio is relayed in either direction:
\* no send of a media frame to the telephony websocket begins or completes
\* and no audio message is sent upstream, though the receive task may still
\* run and receive audio events.
C30_ClosedRelaysNothing ==
    [][\A k \in Conns : Closed(k) =>
          /\ twSent'[k] = twSent[k]
          /\ AudioIds(aiWire'[k]) = AudioIds(aiWire[k])
          /\ aiTask'[k] = "tw_send" => aiTask[k] = "tw_send"
          /\ downFrame'[k] \in {downFrame[k], 0}
          /\ pc'[k] # "ai_send"]_vars

\* closed, the close of the upstream connection still pending and the receive
\* task waiting in recv, with an audio chunk received that went nowhere
C30_Witness ==
    \E k \in Conns :
        /\ Closed(k) /\ pc[k] = "ai_close"
        /\ aiTask[k] = "recv" /\ aiConn[k] = "open"
        /\ nAiAudio[k] = 1 /\ downFrame[k] = 0 /\ twSent[k] = << >>

====
